---- MODULE Spec2Model ----
(***************************************************************************)
(* A model of the rope of wroever/rope: rope_node (node.cpp) and rope      *)
(* (rope.cpp).  A tree is a nested record; an absent handle (nullptr) is   *)
(* Nil.  size_t is an unsigned integer of WordBits bits.                   *)
(***************************************************************************)
EXTENDS Integers, Sequences, FiniteSets, TLC

\* ------------------------------------------------------------------ bounds
WordBits == 8          \* width of size_t in the model
MaxLen == 2            \* longest content a rope of Spec may hold
MaxNodes == 6          \* most nodes a rope's tree of Spec may have
MaxLenBal == 7         \* the same for SpecBal
MaxNodesBal == 13
MaxLenCopy == 1        \* the same for SpecCopy
MaxNodesCopy == 5
IntBits == 7           \* width of int in the model, narrower than size_t
MaxFibArg == 40        \* largest length passed to buildFibList in SpecFib

RECURSIVE Pow2(_)
Pow2(n) == IF n = 0 THEN 1 ELSE 2 * Pow2(n - 1)
Modulus == Pow2(WordBits)
Word == 0 .. (Modulus - 1)

\* int: IntBits bits, two's complement; IntHalf is INT_MAX + 1
IntHalf == Pow2(IntBits - 1)
\* the int a build that wraps around keeps of the sum x
WrapInt(x) == ((x + IntHalf) % (2 * IntHalf)) - IntHalf
\* the conversion of an int to size_t
ToWord(x) == x % Modulus

\* the indices and lengths passed to a rope whose content has at most n
\* characters: every value up to n + 1, and the largest values of size_t,
\* with which start + len wraps around
Idx(n) == (0 .. (n + 1)) \cup {Modulus - k : k \in 1 .. n}

Char == {"a", "b"}
RECURSIVE StrUpTo(_)
StrUpTo(n) == IF n = 0 THEN {<< >>}
              ELSE LET S == StrUpTo(n - 1)
                   IN  S \cup {Append(s, ch) : s \in {t \in S : Len(t) = n - 1}, ch \in Char}

\* the strings passed to insert and append: empty or one character
ArgStr == {<< >>} \cup {<<ch>> : ch \in Char}

\* ------------------------------------------------- results of a C++ call
\* err: "none" (normal return), "invalid_argument" (ERROR_OOB_*),
\* "out_of_range" (thrown by std::string::substr), "crash" (a null handle
\* is dereferenced or a vector is indexed outside its size: the process dies)
Ok(v) == [err |-> "none", val |-> v]
Fail(e) == [err |-> e, val |-> << >>]

\* std::string::substr(pos, n): throws std::out_of_range when pos > size()
substr(s, pos, n) ==
  IF pos > Len(s) THEN Fail("out_of_range")
  ELSE Ok(SubSeq(s, pos + 1, IF pos + n > Len(s) THEN Len(s) ELSE pos + n))

\* ----------------------------------------------------------- rope_node
\* id is the node's address: 0 for a node allocated by the running call,
\* renamed to its place in the heap when the call returns (Renumber).
Nil == [k |-> "nil"]
IsNil(n) == n.k = "nil"

\* rope_node(const string&)
MkLeaf(str) == [k |-> "node", id |-> 0, w |-> Len(str), l |-> Nil, r |-> Nil, f |-> str]

isLeaf(n) == IsNil(n.l) /\ IsNil(n.r)

\* the length taken from the node's own weight only
getLengthNoRight(n) == n.w

RECURSIVE getLength(_)
getLength(n) ==
  IF isLeaf(n) THEN n.w
  ELSE (n.w + (IF IsNil(n.r) THEN 0 ELSE getLength(n.r))) % Modulus

\* rope_node(handle l, handle r); the caller has checked that l is present
MkConcat(l, r) == [k |-> "node", id |-> 0, w |-> getLength(l), l |-> l, r |-> r, f |-> << >>]

\* a copy that hands out the nodes of its argument
CopyNodeShallow(n) == n

\* rope_node(const rope_node&): a fresh node for every node of the argument
RECURSIVE CopyNode(_)
CopyNode(n) ==
  [k |-> "node", id |-> 0, w |-> n.w, f |-> n.f,
   l |-> IF IsNil(n.l) THEN Nil ELSE CopyNode(n.l),
   r |-> IF IsNil(n.r) THEN Nil ELSE CopyNode(n.r)]

RECURSIVE treeToString(_)
treeToString(n) ==
  IF isLeaf(n) THEN n.f
  ELSE (IF IsNil(n.l) THEN << >> ELSE treeToString(n.l))
       \o (IF IsNil(n.r) THEN << >> ELSE treeToString(n.r))

\* the descent without the shift by the weight on the way right
RECURSIVE getCharByIndexNoShift(_, _)
getCharByIndexNoShift(n, index) ==
  IF IsNil(n) THEN Fail("crash")
  ELSE IF isLeaf(n)
       THEN IF index >= n.w THEN Fail("invalid_argument") ELSE Ok(n.f[index + 1])
       ELSE IF index < n.w THEN getCharByIndexNoShift(n.l, index)
            ELSE getCharByIndexNoShift(n.r, index)

RECURSIVE getCharByIndex(_, _)
getCharByIndex(n, index) ==
  IF IsNil(n) THEN Fail("crash")
  ELSE IF isLeaf(n)
       THEN IF index >= n.w THEN Fail("invalid_argument") ELSE Ok(n.f[index + 1])
       ELSE IF index < n.w THEN getCharByIndex(n.l, index)
            ELSE getCharByIndex(n.r, index - n.w)

RECURSIVE getSubstring(_, _, _)
getSubstring(n, start, len) ==
  LET w == n.w IN
  IF isLeaf(n)
  THEN IF len < w THEN substr(n.f, start, len) ELSE Ok(n.f)
  ELSE IF start < w
       THEN LET lResult == IF IsNil(n.l) THEN Ok(<< >>) ELSE getSubstring(n.l, start, len)
            IN  IF lResult.err # "none" THEN lResult
                ELSE IF (start + len) % Modulus > w
                     THEN LET tmp == w - start
                              rResult == IF IsNil(n.r) THEN Ok(<< >>)
                                         ELSE getSubstring(n.r, w, (len - tmp) % Modulus)
                          IN  IF rResult.err # "none" THEN rResult
                              ELSE Ok(lResult.val \o rResult.val)
                     ELSE lResult
       ELSE IF IsNil(n.r) THEN Ok(<< >>) ELSE getSubstring(n.r, start - w, len)

\* splitAt(handle node, size_t index): val is <<first, second>>
RECURSIVE splitAt(_, _)
splitAt(node, index) ==
  IF IsNil(node) THEN Fail("crash")
  ELSE
  LET w == node.w IN
  IF isLeaf(node)
  THEN LET a == substr(node.f, 0, index)
           b == substr(node.f, index, (w - index) % Modulus)
       IN  IF a.err # "none" THEN a
           ELSE IF b.err # "none" THEN b
           ELSE Ok(<<MkLeaf(a.val), MkLeaf(b.val)>>)
  ELSE LET oldRight == node.r IN
       IF index < w
       THEN LET splitLeftResult == splitAt(node.l, index)
            IN  IF splitLeftResult.err # "none" THEN splitLeftResult
                ELSE IF IsNil(splitLeftResult.val[2]) THEN Fail("crash")
                ELSE Ok(<< [node EXCEPT !.r = Nil, !.w = index, !.l = splitLeftResult.val[1]],
                           MkConcat(splitLeftResult.val[2], oldRight) >>)
       ELSE IF w < index
       THEN LET splitRightResult == splitAt(oldRight, index - w)
            IN  IF splitRightResult.err # "none" THEN splitRightResult
                ELSE Ok(<< [node EXCEPT !.r = splitRightResult.val[1]],
                           splitRightResult.val[2] >>)
       ELSE Ok(<<node.l, oldRight>>)

RECURSIVE getDepth(_)
getDepth(n) ==
  IF isLeaf(n) THEN 0
  ELSE LET lResult == IF IsNil(n.l) THEN 0 ELSE getDepth(n.l)
           rResult == IF IsNil(n.r) THEN 0 ELSE getDepth(n.r)
       IN  IF lResult >= rResult THEN lResult + 1 ELSE rResult + 1

\* getLeaves: the leaves from left to right
RECURSIVE getLeaves(_)
getLeaves(n) ==
  IF isLeaf(n) THEN <<n>>
  ELSE (IF IsNil(n.l) THEN << >> ELSE getLeaves(n.l))
       \o (IF IsNil(n.r) THEN << >> ELSE getLeaves(n.r))

\* ------------------------------------------------------ Fibonacci helpers
\* a and b are int: a sum past INT_MAX is undefined; the operators compute
\* the outcome of a build that wraps around, BuildOverflows tells whether
\* the call has met such a sum
RECURSIVE FibLoop(_, _, _, _)
FibLoop(a, b, i, n) == IF i <= n THEN FibLoop(b, WrapInt(a + b), i + 1, n) ELSE b

fib(n) == IF n = 0 THEN 0 ELSE ToWord(FibLoop(0, 1, 2, n))

RECURSIVE BuildLoop(_, _, _, _)
BuildLoop(a, b, intervals, len) ==
  IF ToWord(a) <= len
  THEN BuildLoop(b, WrapInt(a + b),
                 IF a > 0 THEN Append(intervals, ToWord(b)) ELSE intervals, len)
  ELSE intervals

buildFibList(len) == BuildLoop(0, 1, << >>, len)

RECURSIVE BuildOverflows(_, _, _)
BuildOverflows(a, b, len) ==
  /\ ToWord(a) <= len
  /\ (a + b >= IntHalf \/ BuildOverflows(b, WrapInt(a + b), len))

\* ------------------------------------------------------------------ rope
\* A rope is its root_ handle: a tree or Nil.
toString(root) == IF IsNil(root) THEN << >> ELSE treeToString(root)

length(root) == IF IsNil(root) THEN 0 ELSE getLength(root)

at(root, index) ==
  IF IsNil(root) THEN Fail("invalid_argument") ELSE getCharByIndex(root, index)

substring(root, start, len) ==
  LET actualLength == length(root) IN
  IF start > actualLength \/ (start + len) % Modulus > actualLength
  THEN Fail("invalid_argument")
  ELSE IF IsNil(root) THEN Fail("crash")
  ELSE getSubstring(root, start, len)

isBalanced(root) ==
  IF IsNil(root) THEN TRUE
  ELSE length(root) >= fib(getDepth(root) + 2)

\* A mutator returns [err, root]: how the call ended and the root_ it leaves.
\* A call that throws or dies after move(this->root_) leaves root_ absent.
Done(root) == [err |-> "none", root |-> root]
Thrown(e, root) == [err |-> e, root |-> root]

\* rope(const rope& r): dereferences r.root_
CopyRope(x) == IF IsNil(x) THEN Fail("crash") ELSE Ok(CopyNode(x))

\* insert(size_t i, const rope& r), x the root_ of r
insert(root, i, x) ==
  IF length(root) < i THEN Thrown("invalid_argument", root)
  ELSE LET tmp == CopyRope(x) IN
       IF tmp.err # "none" THEN Thrown(tmp.err, root)
       ELSE LET origRopeSplit == splitAt(root, i) IN
            IF origRopeSplit.err # "none" THEN Thrown(origRopeSplit.err, Nil)
            ELSE IF IsNil(origRopeSplit.val[1]) THEN Thrown("crash", Nil)
            ELSE LET tmpConcat == MkConcat(origRopeSplit.val[1], tmp.val)
                 IN  Done(MkConcat(tmpConcat, origRopeSplit.val[2]))

\* append(const rope& r), x the root_ of r; append(const string&) passes a leaf
append(root, x) ==
  LET tmp == CopyRope(x) IN
  IF tmp.err # "none" THEN Thrown(tmp.err, root)
  ELSE IF IsNil(root) THEN Thrown("crash", Nil)
  ELSE Done(MkConcat(root, tmp.val))

rdelete(root, start, len) ==
  LET actualLength == length(root) IN
  IF start > actualLength \/ (start + len) % Modulus > actualLength
  THEN Thrown("invalid_argument", root)
  ELSE LET firstSplit == splitAt(root, start) IN
       IF firstSplit.err # "none" THEN Thrown(firstSplit.err, Nil)
       ELSE LET secondSplit == splitAt(firstSplit.val[2], len) IN
            IF secondSplit.err # "none" THEN Thrown(secondSplit.err, Nil)
            ELSE IF IsNil(firstSplit.val[1]) THEN Thrown("crash", Nil)
            ELSE Done(MkConcat(firstSplit.val[1], secondSplit.val[2]))

\* ------------------------------------------------------------- balance
\* The state of the insertion loop of balance(): nodes is the slot vector
\* (entry k of the C++ vector is nodes[k + 1]), acc the node being placed,
\* len its length, i the slot index, currMaxInterval the highest slot used,
\* err "crash" once a vector is read outside its size.
SlotAt(v, k) == v[k + 1]
InVec(v, k) == k < Len(v)

\* the merge that clears the slot only when the new length is greater than
\* intervals[i+1]
MergeSlotStrict(st, intervals) ==
  LET acc == MkConcat(CopyNode(SlotAt(st.nodes, st.i)), CopyNode(st.acc))
      len == getLength(acc)
  IN  IF ~InVec(intervals, st.i + 1) THEN [st EXCEPT !.err = "crash"]
      ELSE [st EXCEPT !.acc = acc, !.len = len,
                      !.nodes = IF len > SlotAt(intervals, st.i + 1)
                                THEN [st.nodes EXCEPT ![st.i + 1] = Nil]
                                ELSE st.nodes]

\* lines 149-158 and 171-180: concatenate slot i in front of acc, clear the
\* slot when the new length reaches intervals[i+1]
MergeSlot(st, intervals) ==
  LET acc == MkConcat(CopyNode(SlotAt(st.nodes, st.i)), CopyNode(st.acc))
      len == getLength(acc)
  IN  IF ~InVec(intervals, st.i + 1) THEN [st EXCEPT !.err = "crash"]
      ELSE [st EXCEPT !.acc = acc, !.len = len,
                      !.nodes = IF len >= SlotAt(intervals, st.i + 1)
                                THEN [st.nodes EXCEPT ![st.i + 1] = Nil]
                                ELSE st.nodes]

\* lines 146-161: the inner while loop
RECURSIVE FindSlot(_, _, _)
FindSlot(st, intervals, max_i) ==
  IF st.err # "none" THEN st
  ELSE IF st.i < max_i
       THEN IF ~InVec(intervals, st.i + 1) THEN [st EXCEPT !.err = "crash"]
            ELSE IF st.len >= SlotAt(intervals, st.i + 1)
                 THEN LET m == IF ~IsNil(SlotAt(st.nodes, st.i)) THEN MergeSlot(st, intervals)
                               ELSE st
                      IN  FindSlot([m EXCEPT !.i = st.i + 1], intervals, max_i)
                 ELSE st
       ELSE st

\* lines 143-182: while(!inserted)
RECURSIVE PlaceAcc(_, _, _)
PlaceAcc(st0, intervals, max_i) ==
  LET st == FindSlot(st0, intervals, max_i) IN
  IF st.err # "none" THEN st
  ELSE IF ~InVec(st.nodes, st.i) THEN [st EXCEPT !.err = "crash"]
  ELSE IF IsNil(SlotAt(st.nodes, st.i))
       THEN [st EXCEPT !.nodes = [st.nodes EXCEPT ![st.i + 1] = st.acc],
                       !.acc = Nil,
                       !.currMaxInterval = IF st.i > st.currMaxInterval THEN st.i
                                           ELSE st.currMaxInterval]
       ELSE PlaceAcc(MergeSlot(st, intervals), intervals, max_i)

\* lines 134-184: for (auto& leaf : leaves), from leaf number n on
RECURSIVE PlaceLeaves(_, _, _, _, _)
PlaceLeaves(st, leaves, n, intervals, max_i) ==
  IF st.err # "none" \/ n > Len(leaves) THEN st
  ELSE LET len == getLength(leaves[n])
           placed == IF len > 0
                     THEN PlaceAcc([st EXCEPT !.acc = CopyNode(leaves[n]), !.len = len, !.i = 0],
                                   intervals, max_i)
                     ELSE st
       IN  PlaceLeaves(placed, leaves, n + 1, intervals, max_i)

\* lines 188-193: for idx = currMaxInterval down to 0
RECURSIVE ConcatSlots(_, _, _)
ConcatSlots(acc, nodes, idx) ==
  IF idx < 0 THEN Done(acc)
  ELSE IF ~IsNil(SlotAt(nodes, idx))
       THEN IF IsNil(acc) THEN Thrown("crash", Nil)
            ELSE ConcatSlots(MkConcat(acc, CopyNode(SlotAt(nodes, idx))), nodes, idx - 1)
       ELSE ConcatSlots(acc, nodes, idx - 1)

\* the slots of balance() on an unbalanced rope once the insertion loop has
\* gone through the first m leaves
SlotsAfter(root, m) ==
  LET intervals == buildFibList(length(root))
      max_i == (Len(intervals) - 1) % Modulus
  IN  PlaceLeaves([nodes |-> [k \in 1 .. Len(intervals) |-> Nil], acc |-> Nil, len |-> 0,
                   i |-> 0, currMaxInterval |-> 0, err |-> "none"],
                  SubSeq(getLeaves(root), 1, m), 1, intervals, max_i)

\* the slots after the insertion loop
BalanceSlots(root) == SlotsAfter(root, Len(getLeaves(root)))

balance(root) ==
  IF isBalanced(root) THEN Done(root)
  ELSE LET st == BalanceSlots(root) IN
       IF st.err # "none" THEN Thrown(st.err, root)
       ELSE IF ~InVec(st.nodes, st.currMaxInterval) THEN Thrown("crash", root)
       ELSE ConcatSlots(SlotAt(st.nodes, st.currMaxInterval),
                        [st.nodes EXCEPT ![st.currMaxInterval + 1] = Nil],
                        st.currMaxInterval)

\* ------------------------------------------------------------ addresses
RECURSIVE Size(_)
Size(n) == IF IsNil(n) THEN 0 ELSE 1 + Size(n.l) + Size(n.r)

RECURSIVE NodeIds(_)
NodeIds(n) == IF IsNil(n) THEN {} ELSE {n.id} \cup NodeIds(n.l) \cup NodeIds(n.r)

RECURSIVE PreIds(_)
PreIds(n) == IF IsNil(n) THEN << >> ELSE <<n.id>> \o PreIds(n.l) \o PreIds(n.r)

\* Addresses carry no meaning beyond equality, so each call ends by renaming
\* them: the node at preorder place p of rope "r" gets p, the one at place p
\* of rope "c" gets -p, and a node of "c" that is also a node of "r" (same
\* address before the renaming) keeps the address it has in "r".
RECURSIVE Relabel(_, _, _, _)
Relabel(n, base, sign, other) ==
  IF IsNil(n) THEN Nil
  ELSE LET shared == {p \in 1 .. Len(other) : other[p] = n.id /\ n.id # 0}
       IN  [n EXCEPT !.id = IF shared # {} THEN CHOOSE p \in shared : TRUE
                             ELSE sign * (base + 1),
                     !.l = Relabel(n.l, base + 1, sign, other),
                     !.r = Relabel(n.r, base + 1 + Size(n.l), sign, other)]

Renumber(roots) ==
  [t \in {"r", "c"} |->
     IF t = "r" THEN Relabel(roots["r"], 0, 1, << >>)
     ELSE Relabel(roots["c"], 0, -1, PreIds(roots["r"]))]

\* the tree without its addresses
RECURSIVE Shape(_)
Shape(n) == IF IsNil(n) THEN Nil
            ELSE [n EXCEPT !.id = 0, !.l = Shape(n.l), !.r = Shape(n.r)]

\* ---------------------------------------------------------------- state
VARIABLES
  root_,      \* root_[t]: the root_ handle of rope t, t "r" or "c"
  crashed,    \* the process has died (null dereference, vector overrun)
  last        \* the last call: operation, target, arguments, root_ before, outcome

vars == <<root_, crashed, last>>

Other(t) == IF t = "r" THEN "c" ELSE "r"

\* pre and oth are the root_ of the target and of the other rope before the call
Call(op, t, i, len, arg, err, ret) ==
  [op |-> op, tgt |-> t, i |-> i, len |-> len, arg |-> arg,
   pre |-> root_[t], oth |-> root_[Other(t)], err |-> err, ret |-> ret]

\* no call is in progress: the caller has taken the outcome of the last one
NoCall ==
  [op |-> "none", tgt |-> "r", i |-> 0, len |-> 0, arg |-> << >>,
   pre |-> Nil, oth |-> Nil, err |-> "none", ret |-> << >>]

Idle == ~crashed /\ last.op = "none"

\* the state after rope r(str) and rope c
Init ==
  /\ \E str \in StrUpTo(MaxLen) :
       /\ root_ = Renumber([r |-> MkLeaf(str), c |-> MkLeaf(<< >>)])
       /\ last = [op |-> "construct", tgt |-> "r", i |-> 0, len |-> 0, arg |-> str,
                  pre |-> Nil, oth |-> Nil, err |-> "none", ret |-> << >>]
  /\ crashed = FALSE

\* res is what a mutator returned for rope t; B bounds the ropes kept
Fits(root, B) == Len(toString(root)) <= B.len /\ Size(root) <= B.nodes

Mutate(op, t, i, len, arg, res, B) ==
  /\ Idle
  /\ res.err = "none" => Fits(res.root, B)
  /\ crashed' = (res.err = "crash")
  /\ root_' = IF res.err = "crash" THEN root_
              ELSE Renumber([root_ EXCEPT ![t] = res.root])
  /\ last' = Call(op, t, i, len, arg, res.err, << >>)

\* res is what an accessor returned for rope t
Query(op, t, i, len, res) ==
  /\ Idle
  /\ crashed' = (res.err = "crash")
  /\ last' = Call(op, t, i, len, << >>, res.err, IF res.err = "none" THEN res.val ELSE << >>)
  /\ UNCHANGED root_

InsertStr(t, i, str, B) ==
  Mutate("insert", t, i, 0, str, insert(root_[t], i, MkLeaf(str)), B)

InsertRope(t, i, u, B) ==
  Mutate("insert", t, i, 0, toString(root_[u]), insert(root_[t], i, root_[u]), B)

AppendStr(t, str, B) ==
  Mutate("append", t, 0, 0, str, append(root_[t], MkLeaf(str)), B)

AppendRope(t, u, B) ==
  Mutate("append", t, 0, 0, toString(root_[u]), append(root_[t], root_[u]), B)

Rdelete(t, start, len, B) ==
  Mutate("rdelete", t, start, len, << >>, rdelete(root_[t], start, len), B)

Balance(t, B) ==
  Mutate("balance", t, 0, 0, << >>, balance(root_[t]), B)

At(t, index) ==
  LET res == at(root_[t], index)
  IN  Query("at", t, index, 0, IF res.err = "none" THEN Ok(<<res.val>>) ELSE res)

Substring(t, start, len) ==
  Query("substring", t, start, len, substring(root_[t], start, len))

\* rope t(u): the copy constructor
CopyConstruct(t, u, B) ==
  /\ t # u
  /\ LET res == CopyRope(root_[u])
     IN  Mutate("copy", t, 0, 0, toString(root_[u]),
                IF res.err = "none" THEN Done(res.val) ELSE Thrown(res.err, root_[t]), B)

\* t = u: operator=
Assign(t, u, B) ==
  LET res == CopyRope(root_[u])
  IN  Mutate("assign", t, 0, 0, toString(root_[u]),
             IF t = u THEN Done(root_[t])
             ELSE IF res.err = "none" THEN Done(res.val) ELSE Thrown(res.err, Nil), B)

\* the caller takes the outcome of the call (its value or its exception)
Return ==
  /\ ~crashed
  /\ last.op # "none"
  /\ last' = NoCall
  /\ UNCHANGED <<root_, crashed>>

\* Spec: every call on one rope
MainBounds == [len |-> MaxLen, nodes |-> MaxNodes]

Next ==
  \/ \E i \in Idx(MaxLen), str \in ArgStr : InsertStr("r", i, str, MainBounds)
  \/ \E i \in Idx(MaxLen) : InsertRope("r", i, "r", MainBounds)
  \/ \E str \in ArgStr : AppendStr("r", str, MainBounds)
  \/ AppendRope("r", "r", MainBounds)
  \/ \E start \in Idx(MaxLen), len \in Idx(MaxLen) : Rdelete("r", start, len, MainBounds)
  \/ Balance("r", MainBounds)
  \/ \E i \in Idx(MaxLen) : At("r", i)
  \/ \E start \in Idx(MaxLen), len \in Idx(MaxLen) : Substring("r", start, len)
  \/ Assign("r", "r", MainBounds)
  \/ Return

Spec == Init /\ [][Next]_vars

\* SpecInRange: the calls of Spec with every index and length at most
\* MaxLen + 1, so that no sum wraps around
InRange == 0 .. (MaxLen + 1)

NextInRange ==
  \/ \E i \in InRange, str \in ArgStr : InsertStr("r", i, str, MainBounds)
  \/ \E i \in InRange : InsertRope("r", i, "r", MainBounds)
  \/ \E str \in ArgStr : AppendStr("r", str, MainBounds)
  \/ AppendRope("r", "r", MainBounds)
  \/ \E start \in InRange, len \in InRange : Rdelete("r", start, len, MainBounds)
  \/ Balance("r", MainBounds)
  \/ \E i \in InRange : At("r", i)
  \/ \E start \in InRange, len \in InRange : Substring("r", start, len)
  \/ Assign("r", "r", MainBounds)
  \/ Return

SpecInRange == Init /\ [][NextInRange]_vars

\* SpecBal: longer ropes, grown one character at a time and balanced
BalBounds == [len |-> MaxLenBal, nodes |-> MaxNodesBal]

NextBal ==
  \/ \E ch \in Char : AppendStr("r", <<ch>>, BalBounds)
  \/ Balance("r", BalBounds)
  \/ Return

SpecBal == Init /\ [][NextBal]_vars

\* SpecCopy: two ropes, each copied from, assigned from and passed to the other
CopyBounds == [len |-> MaxLenCopy, nodes |-> MaxNodesCopy]
Ropes == {"r", "c"}

\* the strings given to rope t: its own character, so that the origin of
\* every character of a content shows
CopyStr(t) == {<< >>, <<IF t = "r" THEN "a" ELSE "b">>}

\* the state after rope r(str) and rope c
InitCopy ==
  /\ \E str \in CopyStr("r") :
       /\ root_ = Renumber([r |-> MkLeaf(str), c |-> MkLeaf(<< >>)])
       /\ last = [op |-> "construct", tgt |-> "r", i |-> 0, len |-> 0, arg |-> str,
                  pre |-> Nil, oth |-> Nil, err |-> "none", ret |-> << >>]
  /\ crashed = FALSE

NextCopy ==
  \/ \E t \in Ropes : \E i \in Idx(MaxLenCopy), str \in CopyStr(t) :
       InsertStr(t, i, str, CopyBounds)
  \/ \E t \in Ropes, i \in Idx(MaxLenCopy), u \in Ropes : InsertRope(t, i, u, CopyBounds)
  \/ \E t \in Ropes : \E str \in CopyStr(t) : AppendStr(t, str, CopyBounds)
  \/ \E t \in Ropes, u \in Ropes : AppendRope(t, u, CopyBounds)
  \/ \E t \in Ropes, start \in Idx(MaxLenCopy), len \in Idx(MaxLenCopy) :
       Rdelete(t, start, len, CopyBounds)
  \/ \E t \in Ropes : Balance(t, CopyBounds)
  \/ \E t \in Ropes, u \in Ropes : CopyConstruct(t, u, CopyBounds)
  \/ \E t \in Ropes, u \in Ropes : Assign(t, u, CopyBounds)
  \/ Return

SpecCopy == InitCopy /\ [][NextCopy]_vars

\* SpecSlots: ropes of leaves of several lengths, empty ones included, balanced
SlotStr == {<< >>, <<"a">>, <<"b", "b">>, <<"a", "b", "a">>}

NextSlots ==
  \/ \E str \in SlotStr : AppendStr("r", str, BalBounds)
  \/ Balance("r", BalBounds)
  \/ Return

SpecSlots == Init /\ [][NextSlots]_vars

\* SpecFib: buildFibList called on its own with every length up to MaxFibArg.
\* A call that meets an int overflow returns what the wrapped sums give, or
\* the process dies (a build that traps on overflow).
BuildFibList(len) ==
  \/ Query("buildFibList", "r", len, 0, Ok(buildFibList(len)))
  \/ /\ BuildOverflows(0, 1, len)
     /\ Query("buildFibList", "r", len, 0, Fail("crash"))

NextFib ==
  \/ \E len \in 0 .. MaxFibArg : BuildFibList(len)
  \/ Return

SpecFib == Init /\ [][NextFib]_vars

\* --------------------------------------------------------------- claims
Tgt == root_[last.tgt]            \* the target's root_ after the last call
OldStr == toString(last.pre)      \* its content before the call
NewStr == toString(Tgt)           \* its content after the call
Slice(s, from, to) == SubSeq(s, from + 1, to)     \* s[from : to]

\* C1: whenever balance() returns, isBalanced() is true of the rope.
C1_BalancedAfterBalance ==
  (last.op = "balance" /\ last.err = "none") => isBalanced(Tgt)

\* C2: substring(start, len) with start <= length and start + len <= length
\* returns, without error, the len characters toString()[start : start + len].
C2_SubstringIsSlice ==
  (last.op = "substring" /\ last.i <= Len(OldStr) /\ last.i + last.len <= Len(OldStr))
    => (last.err = "none" /\ last.ret = Slice(OldStr, last.i, last.i + last.len))

\* C3: balance() completes on every rope, the empty ones included, and
\* toString() after the call equals toString() before it.
C3_BalanceKeepsContent ==
  last.op = "balance" => (last.err = "none" /\ NewStr = OldStr)

\* C4: after insert(i, x) with i <= length, x a string or the rope itself,
\* toString() is old[0:i] + oldX + old[i:].
C4_InsertContent ==
  (last.op = "insert" /\ last.i <= Len(OldStr))
    => (last.err = "none"
        /\ NewStr = Slice(OldStr, 0, last.i) \o last.arg \o Slice(OldStr, last.i, Len(OldStr)))

\* C5: after rdelete(start, len) with start <= length and start + len <= length
\* toString() is old[0:start] + old[start+len:].
C5_DeleteContent ==
  (last.op = "rdelete" /\ last.i <= Len(OldStr) /\ last.i + last.len <= Len(OldStr))
    => (last.err = "none"
        /\ NewStr = Slice(OldStr, 0, last.i) \o Slice(OldStr, last.i + last.len, Len(OldStr)))

\* C6: a call of at, substring, insert or rdelete whose index or range is out
\* of range throws invalid_argument and leaves the rope's tree as it was.
OutOfRangeCall ==
  \/ last.op = "at" /\ last.i >= Len(OldStr)
  \/ last.op = "insert" /\ last.i > Len(OldStr)
  \/ last.op \in {"substring", "rdelete"}
     /\ (last.i > Len(OldStr) \/ last.i + last.len > Len(OldStr))

C6_OutOfRangeRejected ==
  OutOfRangeCall => (last.err = "invalid_argument" /\ Tgt = last.pre)

\* C7: a rope whose content is empty, or that is a single non-empty leaf, is
\* balanced according to isBalanced(), and balance() returns on it normally
\* and leaves it unchanged.
EmptyOrSingleLeaf(root) ==
  Len(toString(root)) = 0 \/ (~IsNil(root) /\ isLeaf(root))

C7_TrivialRopesBalanced ==
  /\ EmptyOrSingleLeaf(root_["r"]) => isBalanced(root_["r"])
  /\ (last.op = "balance" /\ EmptyOrSingleLeaf(last.pre))
       => (last.err = "none" /\ Tgt = last.pre)

\* C8: substring(start, len) and rdelete(start, len) whose true sum
\* start + len exceeds the length throw invalid_argument and leave the rope
\* unchanged, also when the sum wraps around in size_t.
C8_NoWrapAround ==
  (last.op \in {"substring", "rdelete"} /\ last.i + last.len > Len(OldStr))
    => (last.err = "invalid_argument" /\ Tgt = last.pre)

\* C9: the two ropes never have a node in common, whatever was copied,
\* assigned or passed as an argument, and a call on one rope leaves the tree
\* of the other as it was.
C9_NoSharedNode ==
  /\ NodeIds(root_["r"]) \cap NodeIds(root_["c"]) = {}
  /\ last.op \notin {"none", "construct"} => root_[Other(last.tgt)] = last.oth

C9_Witness ==
  /\ last.op \in {"copy", "assign"} /\ last.tgt = "c" /\ last.err = "none"
  /\ Size(root_["c"]) >= 3
  /\ Shape(root_["c"]) = Shape(root_["r"])

\* C10: at(i) with i < length returns toString()[i].
C10_AtIsChar ==
  (last.op = "at" /\ last.i < Len(OldStr))
    => (last.err = "none" /\ last.ret = <<OldStr[last.i + 1]>>)

C10_Witness ==
  /\ last.op = "at" /\ last.err = "none"
  /\ ~IsNil(last.pre) /\ ~isLeaf(last.pre)
  /\ last.i >= last.pre.w /\ last.pre.w > 0

\* C11: length(), the root's weight plus the weights along the right spine,
\* is the number of characters of toString(), after every call.
C11_LengthIsContentLength ==
  length(root_["r"]) = Len(toString(root_["r"]))

\* some node of the tree has exactly one child
RECURSIVE HasOneChild(_)
HasOneChild(n) ==
  /\ ~IsNil(n)
  /\ \/ IsNil(n.l) # IsNil(n.r)
     \/ HasOneChild(n.l)
     \/ HasOneChild(n.r)

C11_Witness ==
  /\ last.op \in {"insert", "rdelete"} /\ last.err = "none"
  /\ HasOneChild(Tgt)
  /\ ~IsNil(Tgt.r) /\ ~isLeaf(Tgt.r)
  /\ length(Tgt) >= 2

\* C12: every node of the rope's tree is a leaf, with no child, or an
\* internal node with both children and an empty fragment.
RECURSIVE WellShaped(_)
WellShaped(n) ==
  \/ isLeaf(n)
  \/ /\ ~IsNil(n.l) /\ ~IsNil(n.r) /\ n.f = << >>
     /\ WellShaped(n.l) /\ WellShaped(n.r)

C12_NodeShape ==
  ~IsNil(root_["r"]) => WellShaped(root_["r"])

\* the values 1, 2, 3, 5, 8, ... from a on, up to and including the first
\* one greater than n (b the value after a)
RECURSIVE FibsPast(_, _, _)
FibsPast(a, b, n) == IF a > n THEN <<a>> ELSE <<a>> \o FibsPast(b, a + b, n)

FibListAsClaimed(n, list) ==
  /\ list = FibsPast(1, 2, n)
  /\ list # << >>
  /\ list[Len(list)] > n
  /\ n = 8 => list = <<1, 2, 3, 5, 8, 13>>

\* C14: for every n >= 0 buildFibList(n) returns 1, 2, 3, 5, 8, ...
\* up to and including the first value greater than n, so it is never empty,
\* its last entry is greater than n, and for n = 8 it is [1, 2, 3, 5, 8, 13].
C14_FibListEveryLength ==
  last.op = "buildFibList" => (last.err = "none" /\ FibListAsClaimed(last.i, last.ret))

\* the content of the slots, from the highest slot down to slot 0
RECURSIVE SlotsContent(_, _)
SlotsContent(nodes, k) ==
  IF k < 0 THEN << >>
  ELSE toString(SlotAt(nodes, k)) \o SlotsContent(nodes, k - 1)

\* the content of the first m leaves
RECURSIVE LeavesContent(_, _)
LeavesContent(leaves, m) ==
  IF m = 0 THEN << >> ELSE LeavesContent(leaves, m - 1) \o leaves[m].f

SlotsInInterval(root, m) ==
  LET intervals == buildFibList(length(root))
      st == SlotsAfter(root, m)
  IN  /\ st.err = "none"
      /\ \A k \in 0 .. (Len(st.nodes) - 1) :
           ~IsNil(SlotAt(st.nodes, k)) =>
             /\ InVec(intervals, k + 1)
             /\ SlotAt(intervals, k) <= getLength(SlotAt(st.nodes, k))
             /\ getLength(SlotAt(st.nodes, k)) < SlotAt(intervals, k + 1)
      /\ SlotsContent(st.nodes, Len(st.nodes) - 1) = LeavesContent(getLeaves(root), m)

\* balance() has gone through its insertion loop on a rope of length >= 1
BalanceRan == last.op = "balance" /\ length(last.pre) >= 1 /\ ~isBalanced(last.pre)

\* C13: in balance() on a rope of length >= 1, after each leaf every
\* occupied slot k has k + 1 within intervals and holds a tree of length in
\* [intervals[k], intervals[k+1]); every merge has cleared its slot, so the
\* slots hold the content of the leaves placed so far, each once and in order.
C13_SlotsInInterval ==
  BalanceRan => \A m \in 1 .. Len(getLeaves(last.pre)) : SlotsInInterval(last.pre, m)

C13_Witness ==
  /\ BalanceRan /\ last.err = "none"
  /\ \E m \in 1 .. Len(getLeaves(last.pre)) :
       LET st == SlotsAfter(last.pre, m)
       IN  /\ Len(st.nodes) >= 4
           /\ ~IsNil(SlotAt(st.nodes, 0)) /\ ~IsNil(SlotAt(st.nodes, 2))
           /\ getLength(SlotAt(st.nodes, 2)) = 4

\* the root is present and every node met going right from it is a leaf or
\* has a right child
RECURSIVE RightSpinePresent(_)
RightSpinePresent(n) ==
  /\ ~IsNil(n)
  /\ (isLeaf(n) \/ (~IsNil(n.r) /\ RightSpinePresent(n.r)))

\* C15: after every call, failing ones included, on a rope of length >= 1 the
\* root is present and the right spine has no absent right child; no call
\* has dereferenced an absent handle (splitAt on an absent node, a
\* concatenation with an absent left child), and at(i) with i >= length has
\* signalled invalid_argument.
C15_RightSpinePresent ==
  (last.op \in {"copy", "assign", "insert", "append", "rdelete", "balance", "at", "substring"}
   /\ Len(OldStr) >= 1)
    => /\ RightSpinePresent(Tgt)
       /\ last.err # "crash"
       /\ (last.op = "at" /\ last.i >= Len(OldStr)) => last.err = "invalid_argument"

====
